---- MODULE Spec2Model ----
(***************************************************************************)
(* Streaming chat relay with per-user conversation persistence            *)
(* (src/app.py): the three endpoints /new_session, /history and /chat,    *)
(* the history store adapter, the upstream stream processing and the      *)
(* history translation _convert_history.                                   *)
(*                                                                         *)
(* Text is modelled by TLA+ strings ("" is the empty, falsy text) and     *)
(* text concatenation by \o.  The Supabase table is a set of rows.        *)
(***************************************************************************)
EXTENDS Integers, Sequences, FiniteSets, TLC

\* ------------------------------------------------------------------ bounds
\* Number of upstream events consumed by all chat requests together.
MaxEvents == 2

\* The chat requests the model runs: two, so that requests can overlap.
Reqs == {"r1", "r2"}

\* User identities a request can carry; "" stands for an absent or empty field.
Users == {"u1", "u2"}
UserInputs == Users \cup {""}
\* Chat messages a request can carry; "" stands for an absent or empty field.
Messages == {"m1"}
MessageInputs == Messages \cup {""}
\* Content fragments the upstream provider can send.
Fragments == {"a", "b"}
\* Longest conversation handed to _convert_history on its own.
MaxTurns == 2

\* ------------------------------------------------------- program constants
SENTINEL == "[DONE]"
initial_message_text == "Welcome to Veritas."
SYSTEM_INSTRUCTION == "You are Veritas"
STREAM_ERROR == "[STREAM ERROR] Processing error"
HTTP_ERROR == "[CRITICAL ERROR] API request failed with status code"
CONNECTION_ERROR == "[CRITICAL ERROR] Could not connect to the Shivaay API"
UNFORESEEN_ERROR == "[CRITICAL ERROR] Unforeseen Server Error"

\* Outcomes of requests.post(...) followed by raise_for_status().
Opens == {"ok", "http_error", "connection_error"}

\* The lines response.iter_lines() can deliver.  kind tells how the line
\* parses, text is the text it carries:
\*   sentinel   "data: [DONE]"
\*   malformed  a line json.loads rejects (JSONDecodeError)
\*   nochoices  valid JSON whose "choices" list is empty (IndexError)
\*   delta      valid JSON, text is choices[0].delta.content ("" when absent)
Lines ==
    {[kind |-> "sentinel", text |-> SENTINEL],
     [kind |-> "malformed", text |-> "{"],
     [kind |-> "nochoices", text |-> ""]}
    \cup {[kind |-> "delta", text |-> c] : c \in Fragments \cup {""}}

\* ------------------------------------------------------------------- state
VARIABLES
    supabase,   \* the process-wide client: TRUE when initialised, FALSE when None
    table,      \* rows of the chat_sessions table: [user_id, history]
    req,        \* the chat requests, by slot
    consumed,   \* upstream events consumed so far, by all requests
    to_convert, \* conversation_history, the argument of a call of _convert_history
    translation             \* the outcome of that call

vars == <<supabase, table, req, consumed, to_convert, translation>>

\* The variables of a call of _convert_history on its own.
tvars == <<to_convert, translation>>

\* A turn that is given the role "model" whatever role it is built for.
Turn_AlwaysModel(role, text) == [role |-> "model", parts |-> <<[text |-> text]>>]

\* A turn in the stored (Gemini style) shape.
Turn(role, text) == [role |-> role, parts |-> <<[text |-> text]>>]

RECURSIVE Concat(_)
\* Concatenation of a sequence of texts.
Concat(chunks) ==
    IF chunks = <<>> THEN "" ELSE Head(chunks) \o Concat(Tail(chunks))

\* --------------------------------------------------------- _convert_history
\* The history entries _convert_history can meet.  role "" is an absent (or
\* empty) role; has_parts tells whether the entry has a 'parts' key, parts
\* is its list, whose elements carry text ("" when the element has no text);
\* text is the flat 'text' field ("" when absent).
Roles == {"", "user", "model", "system"}
PartsLists == {<<>>, <<[text |-> ""]>>, <<[text |-> "p"]>>}
HistoryEntries ==
    {[role |-> r, has_parts |-> FALSE, parts |-> <<>>, text |-> t] :
        r \in Roles, t \in {"", "t"}}
    \cup {[role |-> r, has_parts |-> TRUE, parts |-> l, text |-> t] :
        r \in Roles, l \in PartsLists, t \in {"", "t"}}
Conversations == UNION {[1..n -> HistoryEntries] : n \in 0..MaxTurns}

\* message.get('parts', [{}])[0].get('text', '') or message.get('text', '')
\* raised: indexing an empty list raises IndexError.
ExtractContent(message) ==
    LET parts == IF message.has_parts THEN message.parts
                                      ELSE <<[text |-> ""]>>
    IN IF parts = <<>> THEN [raised |-> TRUE, content |-> ""]
       ELSE [raised |-> FALSE,
             content |-> IF parts[1].text # "" THEN parts[1].text
                                              ELSE message.text]

RECURSIVE ConvertLoop(_, _)
\* The loop of _convert_history over the entries left, shivaay_messages
\* being the list built so far.  An exception ends the call.
ConvertLoop(entries, shivaay_messages) ==
    IF entries = <<>> THEN [raised |-> FALSE, messages |-> shivaay_messages]
    ELSE LET message == Head(entries)
             role == IF message.role = "model" THEN "assistant"
                                               ELSE message.role
             x == ExtractContent(message)
         IN IF x.raised THEN [raised |-> TRUE, messages |-> <<>>]
            ELSE IF role # "" /\ x.content # ""
                 THEN ConvertLoop(Tail(entries),
                                  Append(shivaay_messages,
                                         [role |-> role, content |-> x.content]))
                 ELSE ConvertLoop(Tail(entries), shivaay_messages)

\* _convert_history: whether it raised, and the list it returned.
ConvertHistory(history, system_instruction) ==
    ConvertLoop(history, <<[role |-> "system", content |-> system_instruction]>>)

\* No call of _convert_history has been made.
NotTranslated == [ran |-> FALSE, raised |-> FALSE, messages |-> <<>>]

\* ----------------------------------------------------- history store adapter
\* Select without the .eq("user_id", user_id) filter.
Select_NoFilter(tbl, user_id) == tbl

\* supabase.table("chat_sessions").select("history").eq("user_id", user_id)
Select(tbl, user_id) == {row \in tbl : row.user_id = user_id}

\* An insert in place of the upsert: a row the table holds already is kept.
Upsert_InsertOnly(tbl, user_id, history) ==
    IF \E row \in tbl : row.user_id = user_id
    THEN tbl
    ELSE tbl \cup {[user_id |-> user_id, history |-> history]}

\* An upsert without its conflict key: the row is added, none is replaced.
Upsert_NoConflictKey(tbl, user_id, history) ==
    tbl \cup {[user_id |-> user_id, history |-> history]}

\* supabase.table("chat_sessions").upsert(data, on_conflict="user_id")
Upsert(tbl, user_id, history) ==
    {row \in tbl : row.user_id # user_id}
        \cup {[user_id |-> user_id, history |-> history]}

\* _load_chat_history: err is a backend failure of this call.  .single()
\* raises unless exactly one row matches; every exception returns [].
LoadChatHistory(sb, tbl, user_id, err) ==
    IF ~sb THEN <<>>
    ELSE IF err THEN <<>>
    ELSE LET rows == Select(tbl, user_id) IN
         IF Cardinality(rows) # 1 THEN <<>>
         ELSE LET row == CHOOSE x \in rows : TRUE IN
              IF row.history # <<>> THEN row.history ELSE <<>>

\* _save_full_turn whose backend failure strikes after the row is written.
SaveFullTurn_FailsAfterWrite(sb, tbl, user_id, updated_history, err) ==
    IF ~sb THEN tbl
    ELSE Upsert(tbl, user_id, updated_history)

\* _save_full_turn: err is a backend failure of this call, logged and swallowed.
SaveFullTurn(sb, tbl, user_id, updated_history, err) ==
    IF ~sb THEN tbl
    ELSE IF err THEN tbl
    ELSE Upsert(tbl, user_id, updated_history)

\* The conversation the store holds for user_id (<<>> when it holds no row).
Stored(tbl, user_id) ==
    LET rows == {row \in tbl : row.user_id = user_id} IN
    IF rows = {} THEN <<>> ELSE (CHOOSE x \in rows : TRUE).history

\* ------------------------------------------------------------ /new_session
\* new_session_handler appending the welcome turn to the stored conversation.
NewSessionHandler_AppendsWelcome(sb, tbl, user_id, err) ==
    IF user_id = ""
    THEN [status |-> 400, message |-> "", table |-> tbl, saves |-> 0]
    ELSE LET history == Append(LoadChatHistory(sb, tbl, user_id, FALSE),
                               Turn("model", initial_message_text)) IN
         [status |-> 200, message |-> initial_message_text,
          table |-> SaveFullTurn(sb, tbl, user_id, history, err), saves |-> 1]

\* new_session_handler: the response and the table it leaves.
NewSessionHandler(sb, tbl, user_id, err) ==
    IF user_id = ""
    THEN [status |-> 400, message |-> "", table |-> tbl, saves |-> 0]
    ELSE LET history == <<Turn("model", initial_message_text)>> IN
         [status |-> 200, message |-> initial_message_text,
          table |-> SaveFullTurn(sb, tbl, user_id, history, err), saves |-> 1]

\* ---------------------------------------------------------------- /history
\* history_handler: the response.
HistoryHandler(sb, tbl, user_id, err) ==
    IF user_id = ""
    THEN [status |-> 400, history |-> <<>>, loads |-> 0]
    ELSE [status |-> 200, history |-> LoadChatHistory(sb, tbl, user_id, err),
          loads |-> 1]

\* -------------------------------------------------------------------- /chat
\* A chat request slot before its request arrives.
IdleReq ==
    [pc |-> "idle", user_id |-> "", message |-> "", status |-> 0,
     history |-> <<>>, full_bot_reply |-> "", sent |-> <<>>,
     frags |-> <<>>, over |-> FALSE, open |-> "none",
     H |-> <<>>, loaded |-> FALSE, loads |-> 0, posts |-> 0,
     saves |-> 0, saved |-> FALSE, appended |-> 0,
     at_yield |-> FALSE, gone |-> FALSE, skipped |-> 0]

\* streaming_wrapper assigning the chunk to the accumulator (= for +=).
WrapperYield_Overwrite(q, chunk) ==
    [q EXCEPT !.full_bot_reply = chunk, !.sent = Append(@, chunk),
              !.at_yield = TRUE]

\* streaming_wrapper, one chunk of generate_response_stream:
\* full_bot_reply += chunk; yield chunk
\* at_yield: the generator is suspended at its yield, the chunk handed to
\* the server.
WrapperYield(q, chunk) ==
    [q EXCEPT !.full_bot_reply = @ \o chunk, !.sent = Append(@, chunk),
              !.at_yield = TRUE]

\* generate_response_stream, the except clauses around requests.post and
\* raise_for_status: the chunk yielded when the connection does not open.
OpenFailureChunk(open) ==
    IF open = "http_error" THEN HTTP_ERROR ELSE CONNECTION_ERROR

\* generate_response_stream up to its first suspension: the upstream call.
GenerateOpen(q, open) ==
    LET p == [q EXCEPT !.open = open, !.posts = 1] IN
    IF open = "ok" THEN p
    ELSE [WrapperYield(p, OpenFailureChunk(open)) EXCEPT !.over = TRUE]

\* chat_handler validating user_id alone.
ChatHandler_ChecksUserOnly(sb, tbl, user_id, message, err, open) ==
    IF user_id = ""
    THEN [IdleReq EXCEPT !.pc = "done", !.status = 400]
    ELSE LET conversation_history == LoadChatHistory(sb, tbl, user_id, err)
             user_turn == Turn("user", message)
             q == [IdleReq EXCEPT
                     !.pc = "streaming", !.user_id = user_id,
                     !.message = message, !.status = 200,
                     !.history = Append(conversation_history, user_turn),
                     !.appended = 1,
                     !.H = Stored(tbl, user_id),
                     !.loaded = sb /\ ~err, !.loads = 1]
         IN GenerateOpen(q, open)

\* chat_handler up to the first suspension of the response generator:
\* validation, load, the user turn, the Response (200) and the upstream call.
ChatHandler(sb, tbl, user_id, message, err, open) ==
    IF user_id = "" \/ message = ""
    THEN [IdleReq EXCEPT !.pc = "done", !.status = 400]
    ELSE LET conversation_history == LoadChatHistory(sb, tbl, user_id, err)
             user_turn == Turn("user", message)
             q == [IdleReq EXCEPT
                     !.pc = "streaming", !.user_id = user_id,
                     !.message = message, !.status = 200,
                     !.history = Append(conversation_history, user_turn),
                     !.appended = 1,
                     !.H = Stored(tbl, user_id),
                     !.loaded = sb /\ ~err, !.loads = 1]
         IN GenerateOpen(q, open)

\* The loop body without its except json.JSONDecodeError clause: the
\* undecodable line falls to except Exception.
ProcessLine_NoDecodeErrorClause(line) ==
    CASE line.kind = "sentinel" ->
            [chunk |-> "", brk |-> FALSE, warned |-> FALSE]
      [] line.kind = "malformed" ->
            [chunk |-> STREAM_ERROR, brk |-> TRUE, warned |-> FALSE]
      [] line.kind = "nochoices" ->
            [chunk |-> STREAM_ERROR, brk |-> TRUE, warned |-> FALSE]
      [] line.kind = "delta" ->
            [chunk |-> line.text, brk |-> FALSE, warned |-> FALSE]

\* generate_response_stream, the body of the loop over iter_lines for one
\* line: the chunk it yields ("" for none), whether it breaks, and whether
\* it logs the line as one it failed to decode.
ProcessLine(line) ==
    CASE line.kind = "sentinel" ->
            [chunk |-> "", brk |-> FALSE, warned |-> FALSE]
      [] line.kind = "malformed" ->
            [chunk |-> "", brk |-> FALSE, warned |-> TRUE]
      [] line.kind = "nochoices" ->
            [chunk |-> STREAM_ERROR, brk |-> TRUE, warned |-> FALSE]
      [] line.kind = "delta" ->
            [chunk |-> line.text, brk |-> FALSE, warned |-> FALSE]

\* The non-empty content fragments a sequence of upstream lines carries.
FragmentsOf(lines) ==
    LET carrying == SelectSeq(lines, LAMBDA l : l.kind = "delta" /\ l.text # "")
    IN [i \in 1..Len(carrying) |-> carrying[i].text]

\* One upstream event of a streaming request.  frags records the content
\* fragments the upstream has sent to this request so far, skipped the
\* lines logged as undecodable; the generator resumes from its yield.
StreamEvent(q, line) ==
    LET p == ProcessLine(line)
        e == [q EXCEPT !.frags = @ \o FragmentsOf(<<line>>), !.over = p.brk,
                       !.at_yield = FALSE,
                       !.skipped = IF p.warned THEN @ + 1 ELSE @]
    IN IF p.chunk # "" THEN WrapperYield(e, p.chunk) ELSE e

\* iter_lines raises (the transport fails mid-stream): the outermost except
\* clause of generate_response_stream yields one chunk and the stream ends.
StreamAbort(q) ==
    [WrapperYield(q, UNFORESEEN_ERROR) EXCEPT !.over = TRUE, !.open = "aborted"]

\* streaming_wrapper saving the conversation before it appends the bot turn.
WrapperCommit_SavesBeforeAppend(sb, tbl, q, err) ==
    IF q.full_bot_reply # ""
    THEN LET bot_turn == Turn("model", q.full_bot_reply)
             history == Append(q.history, bot_turn)
         IN [req |-> [q EXCEPT !.pc = "done", !.history = history,
                               !.appended = 2, !.saves = 1,
                               !.saved = sb /\ ~err],
             table |-> SaveFullTurn(sb, tbl, q.user_id, q.history, err)]
    ELSE [req |-> [q EXCEPT !.pc = "done"], table |-> tbl]

\* streaming_wrapper saving whether or not there is a reply to append.
WrapperCommit_SavesWithoutReply(sb, tbl, q, err) ==
    LET history == IF q.full_bot_reply # ""
                   THEN Append(q.history, Turn("model", q.full_bot_reply))
                   ELSE q.history
    IN [req |-> [q EXCEPT !.pc = "done", !.history = history,
                          !.appended = IF q.full_bot_reply # "" THEN 2 ELSE 1,
                          !.saves = 1, !.saved = sb /\ ~err],
        table |-> SaveFullTurn(sb, tbl, q.user_id, history, err)]

\* streaming_wrapper committing without the test of full_bot_reply.
WrapperCommit_CommitsEmptyReply(sb, tbl, q, err) ==
    LET bot_turn == Turn("model", q.full_bot_reply)
        history == Append(q.history, bot_turn)
    IN [req |-> [q EXCEPT !.pc = "done", !.history = history,
                          !.appended = 2, !.saves = 1,
                          !.saved = sb /\ ~err],
        table |-> SaveFullTurn(sb, tbl, q.user_id, history, err)]

\* streaming_wrapper after the generator is exhausted: the commit.
\* The request and the table it leaves.
WrapperCommit(sb, tbl, q, err) ==
    IF q.full_bot_reply # ""
    THEN LET bot_turn == Turn("model", q.full_bot_reply)
             history == Append(q.history, bot_turn)
         IN [req |-> [q EXCEPT !.pc = "done", !.history = history,
                               !.appended = 2, !.saves = 1,
                               !.saved = sb /\ ~err],
             table |-> SaveFullTurn(sb, tbl, q.user_id, history, err)]
    ELSE [req |-> [q EXCEPT !.pc = "done"], table |-> tbl]

\* The server closes the response generator while it is suspended at its
\* yield (it failed to write to a caller that is gone): GeneratorExit is
\* raised at the yield and nothing after the loop runs.
WrapperClose(q) == [q EXCEPT !.pc = "done"]

\* The response has ended and chat_handler's locals are gone: of a finished
\* request the model keeps what it did (status, loads, posts, saves, ...),
\* not its conversation, accumulator and chunks.
Finished(q) ==
    [q EXCEPT !.history = <<>>, !.full_bot_reply = "", !.sent = <<>>,
              !.frags = <<>>, !.H = <<>>, !.at_yield = FALSE,
              !.gone = FALSE, !.skipped = 0]

\* ------------------------------------------------------------------ actions
Init ==
    /\ supabase \in BOOLEAN
    /\ table = {}
    /\ req = [r \in Reqs |-> IdleReq]
    /\ consumed = 0
    /\ to_convert = <<>>
    /\ translation = NotTranslated

NewSession(user_id, err) ==
    /\ table' = NewSessionHandler(supabase, table, user_id, err).table
    /\ UNCHANGED <<supabase, req, consumed>>
    /\ UNCHANGED tvars

History(user_id) ==
    /\ \E err \in BOOLEAN :
           HistoryHandler(supabase, table, user_id, err).status \in {200, 400}
    /\ UNCHANGED vars

ChatStart(r, user_id, message, err, open) ==
    /\ req[r].pc = "idle"
    /\ r = "r2" => req["r1"].pc # "idle"
    /\ req' = [req EXCEPT
                 ![r] = ChatHandler(supabase, table, user_id, message, err, open)]
    /\ UNCHANGED <<supabase, table, consumed>>
    /\ UNCHANGED tvars

ChatEvent(r, line) ==
    /\ req[r].pc = "streaming"
    /\ ~req[r].over
    /\ consumed < MaxEvents
    /\ req' = [req EXCEPT ![r] = StreamEvent(req[r], line)]
    /\ consumed' = consumed + 1
    /\ UNCHANGED <<supabase, table>>
    /\ UNCHANGED tvars

ChatAbort(r) ==
    /\ req[r].pc = "streaming"
    /\ ~req[r].over
    /\ req' = [req EXCEPT ![r] = StreamAbort(req[r])]
    /\ UNCHANGED <<supabase, table, consumed>>
    /\ UNCHANGED tvars

\* The caller of a streaming response disconnects.  Nothing in the program
\* observes it: the server learns of it only by failing to write a chunk.
CallerDisconnect(r) ==
    /\ req[r].pc = "streaming"
    /\ ~req[r].gone
    /\ req' = [req EXCEPT ![r].gone = TRUE]
    /\ UNCHANGED <<supabase, table, consumed>>
    /\ UNCHANGED tvars

\* The server fails to write the chunk just yielded to a caller that is gone
\* and closes the response generator.
ChatClose(r) ==
    /\ req[r].pc = "streaming"
    /\ req[r].gone
    /\ req[r].at_yield
    /\ req' = [req EXCEPT ![r] = Finished(WrapperClose(req[r]))]
    /\ UNCHANGED <<supabase, table, consumed>>
    /\ UNCHANGED tvars

ChatEnd(r, err) ==
    /\ req[r].pc = "streaming"
    /\ LET out == WrapperCommit(supabase, table, req[r], err) IN
       /\ req' = [req EXCEPT ![r] = Finished(out.req)]
       /\ table' = out.table
    /\ UNCHANGED <<supabase, consumed>>
    /\ UNCHANGED tvars

Next ==
    \/ \E user_id \in UserInputs, err \in BOOLEAN : NewSession(user_id, err)
    \/ \E user_id \in UserInputs : History(user_id)
    \/ \E r \in Reqs, user_id \in UserInputs, message \in MessageInputs,
          err \in BOOLEAN, open \in Opens :
            ChatStart(r, user_id, message, err, open)
    \/ \E r \in Reqs, line \in Lines : ChatEvent(r, line)
    \/ \E r \in Reqs : ChatAbort(r)
    \/ \E r \in Reqs : CallerDisconnect(r)
    \/ \E r \in Reqs : ChatClose(r)
    \/ \E r \in Reqs, err \in BOOLEAN : ChatEnd(r, err)

Spec == Init /\ [][Next]_vars

\* ------------------------------------------- _convert_history on its own
\* A call of _convert_history on any conversation, outside a request.
TranslateInit ==
    /\ supabase = FALSE
    /\ table = {}
    /\ req = [r \in Reqs |-> IdleReq]
    /\ consumed = 0
    /\ to_convert \in Conversations
    /\ translation = NotTranslated

Translate ==
    /\ ~translation.ran
    /\ LET out == ConvertHistory(to_convert, SYSTEM_INSTRUCTION) IN
       translation' = [ran |-> TRUE, raised |-> out.raised,
                       messages |-> out.messages]
    /\ UNCHANGED <<supabase, table, req, consumed, to_convert>>

TranslateNext == Translate

TranslateSpec == TranslateInit /\ [][TranslateNext]_vars

\* ------------------------------------------------------------------- claims
\* The conversation a request loaded: its working conversation without the
\* turns the request itself appended.
Base(q) == SubSeq(q.history, 1, Len(q.history) - q.appended)

\* The user and assistant turns request q contributes when its reply is text.
Pair(q, text) == <<Turn("user", q.message), Turn("model", text)>>

\* The chunk generate_response_stream yields when a stream that opened ends
\* on an error: a processing error of one event, or a transport failure.
ErrorTail(q) ==
    IF ~q.over THEN <<>>
    ELSE IF q.open = "aborted" THEN <<UNFORESEEN_ERROR>> ELSE <<STREAM_ERROR>>

\* The upstream connection of the request did not open.
OpenFailed(q) == q.open \in {"http_error", "connection_error"}

\* The upstream connection of the request opened, so that it has a stream.
Opened(q) == q.open \in {"ok", "aborted"}

\* The rows the table holds for a user.
Rows(tbl, user_id) == {row \in tbl : row.user_id = user_id}

\* The commit of request r in the current state, its save not failing.
Commit(r) == WrapperCommit(supabase, table, req[r], FALSE)

\* C1: when opening the upstream connection fails, the caller receives a
\* single diagnostic chunk and the response ends, no assistant turn is
\* appended, save is never invoked for that request and the stored
\* conversation of that user is what it was before the request.
C1_OpenFailureLeavesNoTurn ==
    \A r \in Reqs :
        /\ (req[r].pc = "streaming" /\ OpenFailed(req[r])) =>
               /\ Len(req[r].sent) = 1
               /\ req[r].over
               /\ Commit(r).req.appended = 1
               /\ Commit(r).req.saves = 0
               /\ Commit(r).table = table
        /\ (req[r].pc = "done" /\ OpenFailed(req[r])) =>
               /\ req[r].appended = 1
               /\ req[r].saves = 0
               /\ ~req[r].saved

C3_NoFragmentNoSave ==
    \A r \in Reqs :
        (req[r].pc = "streaming" /\ Opened(req[r]) /\ req[r].frags = <<>>) =>
            /\ Commit(r).req.saves = 0
            /\ Commit(r).table = table

C5_StartSessionSeedsWelcome ==
    \A u \in Users :
        LET out == NewSessionHandler(supabase, table, u, FALSE)
            welcome == <<Turn("model", initial_message_text)>>
            fetch == HistoryHandler(supabase, out.table, u, FALSE)
        IN supabase =>
               /\ out.status = 200
               /\ out.message = initial_message_text
               /\ out.saves = 1
               /\ Cardinality({row \in out.table : row.user_id = u}) = 1
               /\ Stored(out.table, u) = welcome
               /\ fetch.status = 200
               /\ fetch.history = welcome

\* C5 witness: a start-session has run for a user who chatted before; the
\* store holds the single welcome turn for that user.
C5_Witness ==
    \E r \in Reqs :
        /\ req[r].pc = "done" /\ req[r].saved
        /\ Stored(table, req[r].user_id)
               = <<Turn("model", initial_message_text)>>

\* s is a prefix of t.
IsPrefix(s, t) == Len(s) <= Len(t) /\ SubSeq(t, 1, Len(s)) = s

\* C6: conversations are append-only: whenever the stored conversation of a
\* user changes, the previously stored conversation is a prefix of the new
\* one.
C6_AppendOnly ==
    [][\A u \in Users : IsPrefix(Stored(table, u), Stored(table', u))]_vars

\* C7: when two chat requests for the same user loaded the same base
\* conversation H and both produce a non-empty reply, the store after the
\* later save holds H and only the later saver's user and assistant turns:
\* the earlier saver's pair, which the store held on H, is gone.
C7_LaterSaveWins ==
    \A e \in Reqs : \A l \in Reqs \ {e} : \A f \in Fragments :
        LET qe == req[e]
            ql == req[l]
        IN (/\ supabase
            /\ qe.pc = "done" /\ qe.saved
            /\ ql.pc = "streaming" /\ ql.sent # <<>>
            /\ qe.user_id = ql.user_id
            /\ Stored(table, ql.user_id) = Base(ql) \o Pair(qe, f)) =>
               Stored(Commit(l).table, ql.user_id)
                   = Base(ql) \o Pair(ql, ql.full_bot_reply)

\* C7 witness: request e has saved the base and its pair; request l of the
\* same user, which loaded that base before e saved, has a different reply
\* and is about to commit; after its commit the store holds the base and
\* l's pair only.
C7_Witness ==
    \E e \in Reqs : \E l \in Reqs \ {e} : \E f \in Fragments :
        /\ req[e].pc = "done" /\ req[e].saved
        /\ req[l].pc = "streaming" /\ req[l].loaded
        /\ req[e].user_id = req[l].user_id
        /\ Base(req[l]) # <<>>
        /\ req[l].sent # <<>> /\ req[l].full_bot_reply # f
        /\ Stored(table, req[l].user_id) = Base(req[l]) \o Pair(req[e], f)
        /\ Stored(Commit(l).table, req[l].user_id)
               = Base(req[l]) \o Pair(req[l], req[l].full_bot_reply)

\* C8: requests for different users are independent: a start-session,
\* fetch-history or chat request for user a changes no row of another user b
\* and reads none (what it loads or returns is a's stored conversation), and
\* the working conversation of a request holds only what the store held for
\* its own user when it started and the turns of that request itself.
C8_UsersIndependent ==
    /\ \A a \in Users : \A b \in Users \ {a} : \A err \in BOOLEAN :
           /\ Rows(NewSessionHandler(supabase, table, a, err).table, b)
                  = Rows(table, b)
           /\ HistoryHandler(supabase, table, a, err).history
                  \in {<<>>, Stored(table, a)}
           /\ \A message \in Messages :
                  LET q == ChatHandler(supabase, table, a, message, err, "ok")
                  IN IF q.loaded THEN Base(q) = Stored(table, a)
                                 ELSE Base(q) = <<>>
           /\ \A r \in Reqs :
                  (req[r].pc = "streaming" /\ req[r].user_id = a) =>
                      Rows(WrapperCommit(supabase, table, req[r], err).table, b)
                          = Rows(table, b)
    /\ \A r \in Reqs :
           req[r].pc = "streaming" =>
               /\ Base(req[r]) \in {<<>>, req[r].H}
               /\ req[r].history = Append(Base(req[r]),
                                          Turn("user", req[r].message))
               /\ Commit(r).req.history
                      \in {req[r].history,
                           Base(req[r]) \o Pair(req[r], req[r].full_bot_reply)}

\* C8 witness: a request for one user has saved while the other user holds
\* a different stored conversation.
C8_Witness ==
    \E r \in Reqs, b \in Users :
        /\ req[r].pc = "done" /\ req[r].saved
        /\ b # req[r].user_id
        /\ Stored(table, b) # <<>>
        /\ Len(Stored(table, req[r].user_id)) >= 2
        /\ Stored(table, b) # Stored(table, req[r].user_id)

\* C9: a request missing a required field is answered 400 and has no side
\* effect: no load, no upstream call, no save, the store unchanged.
C9_MissingFieldRejected ==
    /\ \A err \in BOOLEAN :
           LET out == NewSessionHandler(supabase, table, "", err) IN
           out.status = 400 /\ out.saves = 0 /\ out.table = table
    /\ \A err \in BOOLEAN :
           LET out == HistoryHandler(supabase, table, "", err) IN
           out.status = 400 /\ out.loads = 0
    /\ \A user_id \in UserInputs, message \in MessageInputs,
          err \in BOOLEAN, open \in Opens :
           (user_id = "" \/ message = "") =>
               LET q == ChatHandler(supabase, table, user_id, message, err, open)
               IN /\ q.status = 400 /\ q.pc = "done"
                  /\ q.loads = 0 /\ q.posts = 0 /\ q.saves = 0
    /\ \A r \in Reqs :
           req[r].status = 400 =>
               /\ req[r].pc = "done"
               /\ req[r].loads = 0 /\ req[r].posts = 0 /\ req[r].saves = 0
               /\ ~req[r].saved /\ req[r].appended = 0

\* C9 witness: a chat request was rejected with 400 while the store holds a
\* conversation.
C9_Witness ==
    \E r \in Reqs : req[r].status = 400 /\ table # {}

\* C10: when the upstream answers a chat request with an HTTP error status,
\* the chat response has status 500.
C10_HttpErrorAnswers500 ==
    \A r \in Reqs : req[r].open = "http_error" => req[r].status = 500

\* The text of a stored turn.
TextOf(turn) == turn.parts[1].text

\* C11: no stored conversation holds a turn with empty content, an
\* assistant turn in particular: start-session persists the non-empty
\* welcome text, and a chat request persists an assistant turn only when the
\* accumulated reply is non-empty and a user turn only for a non-empty
\* message.
C11_NoEmptyTurnStored ==
    /\ initial_message_text # ""
    /\ \A row \in table : \A i \in 1..Len(row.history) :
           /\ Len(row.history[i].parts) = 1
           /\ TextOf(row.history[i]) # ""
    /\ \A r \in Reqs : \A err \in BOOLEAN :
           req[r].pc = "streaming" =>
               LET out == WrapperCommit(supabase, table, req[r], err) IN
               /\ req[r].message # ""
               /\ req[r].full_bot_reply = "" =>
                      out.req.saves = 0 /\ out.table = table
               /\ \A row \in out.table : \A i \in 1..Len(row.history) :
                      TextOf(row.history[i]) # ""

\* C11 witness: a chat request whose stream ended with an empty accumulator
\* has finished without a save, while the store holds a conversation for
\* its user.
C11_Witness ==
    \E r \in Reqs :
        /\ req[r].pc = "done" /\ req[r].open = "ok"
        /\ req[r].appended = 1 /\ req[r].saves = 0
        /\ Stored(table, req[r].user_id) # <<>>

\* The 'parts' field of a history entry is populated: it carries a text.
PopulatedParts(message) ==
    message.has_parts /\ message.parts # <<>> /\ message.parts[1].text # ""

\* The content of a history entry: from the parts field when it is
\* populated, from the flat text field otherwise.
ContentOf(message) ==
    IF PopulatedParts(message) THEN message.parts[1].text ELSE message.text

\* The history entry has a role and non-empty content.
HasRoleAndContent(message) == message.role # "" /\ ContentOf(message) # ""

\* The upstream message of a history entry.
EntryOf(message) ==
    [role |-> IF message.role = "model" THEN "assistant" ELSE message.role,
     content |-> ContentOf(message)]

\* The system entry, then one entry per turn with a role and content.
Expected(history) ==
    LET kept == SelectSeq(history, HasRoleAndContent) IN
    <<[role |-> "system", content |-> SYSTEM_INSTRUCTION]>>
        \o [i \in 1..Len(kept) |-> EntryOf(kept[i])]

\* C12: for any conversation translate returns the system entry carrying
\* the system directive followed by exactly one entry per input turn that has
\* a role and non-empty content, in the original order, 'model' mapped to
\* 'assistant' and 'user' passed through, the content taken from the parts
\* field when it is populated and from the flat text field otherwise, and
\* translate adds no other system entry.
C12_TranslateMapsTurns ==
    translation.ran =>
        /\ translation.messages = Expected(to_convert)
        /\ Cardinality({i \in 1..Len(translation.messages) :
                           translation.messages[i].role = "system"})
               = 1 + Cardinality({i \in 1..Len(to_convert) :
                                    /\ to_convert[i].role = "system"
                                    /\ HasRoleAndContent(to_convert[i])})

\* C13: translate never fails on a malformed entry: for any input sequence
\* the call completes, and the turns without a role or without extractable
\* non-empty content are excluded without an effect on the rest: the output
\* is the output for the sequence of the remaining turns, one entry each.
C13_TranslateNeverFails ==
    translation.ran =>
        LET kept == SelectSeq(to_convert, HasRoleAndContent) IN
        /\ ~translation.raised
        /\ Len(translation.messages) = 1 + Len(kept)
        /\ translation.messages
               = ConvertHistory(kept, SYSTEM_INSTRUCTION).messages

\* Conversations handed to save: the welcome conversation and conversations
\* a chat request builds.
SavedConversations ==
    {<<Turn("model", initial_message_text)>>}
    \cup {<<Turn("user", m), Turn("model", f)>> :
             m \in Messages, f \in Fragments}
    \cup {<<Turn("model", initial_message_text), Turn("user", m),
            Turn("model", f)>> : m \in Messages, f \in Fragments}

\* C14: save is an upsert keyed on the user identity: the store holds at
\* most one record per user identity, and after two successive saves for the
\* same user with conversations c1 then c2 (both written) it holds exactly
\* c2 for that user, in one record, the records of other users untouched.
C14_SaveIsUpsert ==
    /\ \A u \in Users : Cardinality(Rows(table, u)) <= 1
    /\ supabase =>
           \A u \in Users : \A c1 \in SavedConversations :
           \A c2 \in SavedConversations :
               LET first == SaveFullTurn(supabase, table, u, c1, FALSE)
                   second == SaveFullTurn(supabase, first, u, c2, FALSE)
               IN /\ Rows(first, u) = {[user_id |-> u, history |-> c1]}
                  /\ Rows(second, u) = {[user_id |-> u, history |-> c2]}
                  /\ \A v \in Users \ {u} : Rows(second, v) = Rows(table, v)

\* C14 witness: after a start-session and a chat request of one user, two
\* successive saves, the store holds one record for that user, the second
\* conversation, next to the record of the other user.
C14_Witness ==
    \E u \in Users, c2 \in SavedConversations :
        /\ Len(c2) = 3
        /\ Rows(table, u) = {[user_id |-> u, history |-> c2]}
        /\ Cardinality(table) = 2

\* C15: within one chat request save is invoked at most once, and only by
\* the commit, after the stream has ended and every chunk has been
\* forwarded; the user turn and the assistant turn are written together in
\* that one whole-conversation save, so that the store never holds a user
\* turn without the assistant turn after it.
C15_OneSaveAfterTheStream ==
    /\ \A r \in Reqs :
           /\ req[r].saves <= 1
           /\ req[r].pc = "streaming" => req[r].saves = 0 /\ ~req[r].saved
           /\ req[r].saves = 1 => req[r].pc = "done" /\ req[r].appended = 2
    /\ \A r \in Reqs : \A err \in BOOLEAN :
           req[r].pc = "streaming" =>
               LET out == WrapperCommit(supabase, table, req[r], err)
                   n == Len(out.req.history)
               IN IF out.req.saves = 1
                  THEN /\ n >= 2
                       /\ out.req.history[n - 1]
                              = Turn("user", req[r].message)
                       /\ out.req.history[n]
                              = Turn("model", Concat(req[r].sent))
                       /\ out.table # table =>
                              Rows(out.table, req[r].user_id)
                                  = {[user_id |-> req[r].user_id,
                                      history |-> out.req.history]}
                  ELSE out.req.saves = 0 /\ out.table = table
    /\ \A row \in table : \A i \in 1..Len(row.history) :
           row.history[i].role = "user" =>
               /\ i < Len(row.history)
               /\ row.history[i + 1].role = "model"

\* C15 witness: a request has forwarded two chunks and its stream has not
\* ended: nothing of the request is in the store, which holds the welcome
\* conversation the request loaded.
C15_Witness ==
    \E r \in Reqs :
        /\ supabase /\ req[r].pc = "streaming" /\ req[r].loaded
        /\ Len(req[r].sent) = 2 /\ req[r].saves = 0
        /\ Base(req[r]) = <<Turn("model", initial_message_text)>>
        /\ Stored(table, req[r].user_id) = Base(req[r])

\* C16: if the caller disconnects while a chat response is still streaming,
\* the relay stops consuming upstream events and does not enter the commit
\* phase: from then on the request either stays as it is or ends with no
\* assistant turn appended and no save invoked.
C16_DisconnectStopsTheRelay ==
    [][\A r \in Reqs :
          (req[r].pc = "streaming" /\ req[r].gone) =>
              \/ req'[r] = req[r]
              \/ /\ req'[r].pc = "done"
                 /\ req'[r].appended = 1
                 /\ req'[r].saves = 0 /\ ~req'[r].saved]_vars

\* C17: when a processing error other than an undecodable event occurs
\* after fragments f1..fk (k >= 1) have been forwarded, the relay forwards
\* one visible error fragment, consumes no later event, and commits the text
\* accumulated before the error, f1+...+fk, as the reply.
C17_ErrorCommitsTextBeforeIt ==
    \A r \in Reqs :
        (/\ req[r].pc = "streaming" /\ req[r].open = "ok" /\ req[r].over
         /\ req[r].frags # <<>>) =>
            /\ req[r].sent = Append(req[r].frags, STREAM_ERROR)
            /\ Commit(r).req.history
                   = Append(req[r].history,
                            Turn("model", Concat(req[r].frags)))

\* An upstream line json.loads rejects.
MalformedLine == [kind |-> "malformed", text |-> "{"]

\* C18: an unparseable upstream event is skipped without a chunk and
\* without ending the stream: the chunks and the accumulator are as before
\* it, the stream goes on, and a content fragment that follows is forwarded
\* and accumulated after those forwarded before; whatever events were
\* skipped, the chunks forwarded are the fragments received, in order.
C18_MalformedEventSkipped ==
    \A r \in Reqs :
        (req[r].pc = "streaming" /\ Opened(req[r])) =>
            /\ req[r].skipped > 0 =>
                   req[r].sent = req[r].frags \o ErrorTail(req[r])
            /\ ~req[r].over =>
                   LET q == req[r]
                       e == StreamEvent(q, MalformedLine)
                   IN /\ e.sent = q.sent
                      /\ e.full_bot_reply = q.full_bot_reply
                      /\ e.pc = "streaming" /\ ~e.over
                      /\ e.skipped = q.skipped + 1
                      /\ \A f \in Fragments :
                             LET g == StreamEvent(e, [kind |-> "delta",
                                                      text |-> f])
                             IN /\ g.sent = Append(q.sent, f)
                                /\ g.full_bot_reply = q.full_bot_reply \o f
                                /\ ~g.over

\* C18 witness: a request has skipped an unparseable event and then
\* forwarded the fragment "a" of the event after it; its stream goes on.
C18_Witness ==
    \E r \in Reqs :
        /\ req[r].pc = "streaming" /\ ~req[r].over
        /\ req[r].skipped = 1 /\ req[r].at_yield
        /\ req[r].sent = <<"a">> /\ req[r].full_bot_reply = "a"

\* C19: persistence failures never reach the caller.  A load that fails, or
\* an unavailable store, makes the request go on with an empty conversation
\* (fetch-history answers 200 with none); a save that fails, or an
\* unavailable store, leaves the store unchanged while the chat caller gets
\* the same chunks and the request ends normally, and start-session still
\* answers 200 with the welcome message.
C19_PersistenceFailuresHidden ==
    /\ \A u \in Users : \A err \in BOOLEAN :
           (err \/ ~supabase) =>
               /\ HistoryHandler(supabase, table, u, err)
                      = [status |-> 200, history |-> <<>>, loads |-> 1]
               /\ NewSessionHandler(supabase, table, u, err)
                      = [status |-> 200, message |-> initial_message_text,
                         table |-> table, saves |-> 1]
               /\ \A m \in Messages : \A open \in Opens :
                      LET q == ChatHandler(supabase, table, u, m, err, open)
                          fine == ChatHandler(TRUE, table, u, m, FALSE, open)
                      IN /\ q.status = 200 /\ q.pc = "streaming"
                         /\ q.history = <<Turn("user", m)>>
                         /\ q.sent = fine.sent
    /\ \A r \in Reqs : \A err \in BOOLEAN :
           (req[r].pc = "streaming" /\ (err \/ ~supabase)) =>
               LET out == WrapperCommit(supabase, table, req[r], err)
                   fine == WrapperCommit(TRUE, table, req[r], FALSE)
               IN /\ out.table = table
                  /\ out.req.pc = "done" /\ out.req.status = 200
                  /\ out.req.sent = req[r].sent
                  /\ out.req.sent = fine.req.sent
                  /\ out.req.history = fine.req.history

\* C19 witness: a chat request whose load and whose save both failed has
\* ended with status 200 and its save invoked; the store still holds the
\* welcome conversation of its user.
C19_Witness ==
    \E r \in Reqs :
        /\ supabase /\ req[r].pc = "done" /\ req[r].status = 200
        /\ ~req[r].loaded /\ req[r].saves = 1 /\ ~req[r].saved
        /\ Stored(table, req[r].user_id)
               = <<Turn("model", initial_message_text)>>

\* C20: starting from an empty store, after any sequence and interleaving
\* of start-session, fetch-history and chat requests, failed loads and lost
\* same-user writes included, every stored conversation is non-empty, its
\* last turn is an assistant ("model") turn, and its roles alternate
\* strictly between user and assistant.
C20_StoredConversationsAlternate ==
    \A row \in table :
        LET h == row.history IN
        /\ h # <<>>
        /\ h[Len(h)].role = "model"
        /\ \A i \in 1..Len(h) : h[i].role \in {"user", "model"}
        /\ \A i \in 1..(Len(h) - 1) : h[i].role # h[i + 1].role

\* C20 witness: the store holds a conversation of five turns: the welcome
\* turn and the user and assistant turns of two chat requests.
C20_Witness ==
    \E u \in Users :
        /\ Len(Stored(table, u)) = 5
        /\ Stored(table, u)[1] = Turn("model", initial_message_text)
        /\ Stored(table, u)[4].role = "user"

====
